---- MODULE Spec2Model ----
(***************************************************************************)
(* A model of the devotional-PDF extraction pipeline of daily-walking:     *)
(*   app/extract.py  _normalize_text, _detect_day_from_lines,              *)
(*                   extract_from_text, extract_devotional_data            *)
(*   app/tables.py   find_tables_in_pdf, table_to_html,                    *)
(*                   append_tables_to_content,                             *)
(*                   _merge_split_tables_across_days                       *)
(*                                                                         *)
(* A Python str is a sequence of characters; a character is a one-element  *)
(* token.  ASCII characters stand for themselves; a CJK character is one   *)
(* token written in capitals (DI for U+7B2C, ZHOU for U+5468, ...).        *)
(* Positions inside a string are 1-based here; line and page indexes keep  *)
(* the 0-based values of the code.                                         *)
(***************************************************************************)
EXTENDS Integers, Sequences, FiniteSets, TLC

VARIABLES
    pc,               \* position of the running function
    pages,            \* the PDF: sequence of pages [lines, tables]
    lines,            \* the line list the segmenter's cursor runs over
    pno,              \* extract_devotional_data / binder: current page number
    i,                \* the cursor
    j,                \* the cursor of the reflection scan
    opened,           \* per record opened so far: the page and cursor of its header
    current_day,      \* the open record: <<>> (None) or <<record>>
    all_days,         \* the output list
    page_to_day_idx,  \* binder: page -> day index, -1 for None
    day_idx,          \* binder: the counter of pages with a header
    page_tables,      \* binder: page -> tables, as find_tables_in_pdf returns it
    use_html,         \* binder: the use_html argument
    tno,              \* binder: index of the next table of the page
    data,             \* the record list the binder / the repair mutates
    data0,            \* the record list as the running function received it
    pass,             \* repair: which of the three passes is running
    failed,           \* repair: the except clause has run
    detected,         \* the value _detect_day_from_lines last returned to the loop
    pdf_handle        \* extract_devotional_data: what was done with the PDF handle

vars == <<pc, pages, lines, pno, i, j, opened, current_day, all_days,
          page_to_day_idx, day_idx, page_tables, use_html, tno, data, data0, pass,
          failed, detected, pdf_handle>>

(***************************************************************************)
(* Characters                                                              *)
(***************************************************************************)
DI == "DI"            \* U+7B2C, opens a week, day or chapter marker
ZHOU == "ZHOU"        \* U+5468, closes a week marker
RI == "RI"            \* U+65E5, closes a day marker
YUE == "YUE"          \* U+6708, the month sign
DUN == "DUN"          \* U+3001, the day-number separator
ZHANG == "ZHANG"      \* U+7AE0, closes a chapter marker
JIN == "JIN"          \* U+91D1
JU == "JU"            \* U+53E5
QING == "QING"        \* U+8BF7
YONG == "YONG"        \* U+7528
SI1 == "SI1"          \* U+601D
KAO == "KAO"          \* U+8003
TI == "TI"            \* U+63D0
XING == "XING"        \* U+9192
YI4 == "YI4"          \* U+610F
YI4B == "YI4B"        \* U+4E49
FCOLON == "FCOLON"    \* U+FF1A, the full-width colon
NL == "\n"
TAB == "\t"

WS == {" ", NL, TAB}
Digit == {"0", "1", "2", "3", "4", "5", "6", "7", "8", "9"}
CnNum == {"YI", "ER", "SAN", "SI", "WU", "LIU", "QI", "BA", "JIU", "SHI", "BAI", "LING"}

(***************************************************************************)
(* str primitives                                                          *)
(***************************************************************************)
\* s[p:] starts with sub
IsPrefixAt(s, sub, p) ==
    /\ p >= 1
    /\ p + Len(sub) - 1 <= Len(s)
    /\ SubSeq(s, p, p + Len(sub) - 1) = sub

\* str.find from position from: the least position of sub, 0 when absent
Find(s, sub, from) ==
    LET P == {p \in from..Len(s) : IsPrefixAt(s, sub, p)}
    IN IF P = {} THEN 0 ELSE CHOOSE p \in P : \A q \in P : p <= q

\* sub in s
Contains(s, sub) == sub = <<>> \/ Find(s, sub, 1) # 0

\* the first position at or after p whose character is outside S
SkipWhile(s, p, S) ==
    CHOOSE q \in p..(Len(s) + 1) :
        /\ \A k \in p..(q - 1) : s[k] \in S
        /\ q = Len(s) + 1 \/ s[q] \notin S

\* the last position at or before p whose character is outside S, 0 if none
SkipBack(s, p, S) ==
    CHOOSE q \in 0..p :
        /\ \A k \in (q + 1)..p : s[k] \in S
        /\ q = 0 \/ s[q] \notin S

LStrip(s) == SubSeq(s, SkipWhile(s, 1, WS), Len(s))
RStrip(s) == SubSeq(s, 1, SkipBack(s, Len(s), WS))
Strip(s) == RStrip(LStrip(s))
\* str.rstrip(chars)
RStripChars(s, S) == SubSeq(s, 1, SkipBack(s, Len(s), S))

\* the variant of str.replace that replaces nothing
ReplaceNone(s, sub, rep) == s

\* str.replace(sub, rep): left to right, non-overlapping
RECURSIVE ReplaceFrom(_, _, _, _)
ReplaceFrom(s, sub, rep, p) ==
    LET q == Find(s, sub, p)
    IN IF q = 0 THEN SubSeq(s, p, Len(s))
       ELSE SubSeq(s, p, q - 1) \o rep \o ReplaceFrom(s, sub, rep, q + Len(sub))

Replace(s, sub, rep) == IF sub = <<>> THEN s ELSE ReplaceFrom(s, sub, rep, 1)

\* re.sub(r"\s+", " ", s): the first character of every whitespace run becomes
\* one space, the rest of the run is dropped
KeptMark(m) == m.keep

\* the variant that replaces whitespace two characters at a time
CollapsePairs(s) ==
    LET marked == [p \in 1..Len(s) |->
                     [c |-> IF s[p] \in WS THEN " " ELSE s[p],
                      keep |-> IF s[p] \notin WS THEN TRUE
                               ELSE (p - SkipBack(s, p, WS)) % 2 = 1]]
        kept == SelectSeq(marked, KeptMark)
    IN [p \in 1..Len(kept) |-> kept[p].c]

Collapse(s) ==
    LET marked == [p \in 1..Len(s) |->
                     [c |-> IF s[p] \in WS THEN " " ELSE s[p],
                      keep |-> IF s[p] \notin WS THEN TRUE
                               ELSE IF p = 1 THEN TRUE
                               ELSE s[p - 1] \notin WS]]
        kept == SelectSeq(marked, KeptMark)
    IN [p \in 1..Len(kept) |-> kept[p].c]

_normalize_text(s) == IF s = <<>> THEN <<>> ELSE Strip(Collapse(s))

(***************************************************************************)
(* Header Detector                                                         *)
(***************************************************************************)
NoMatch == [start |-> 0, end |-> 0, g |-> <<>>]

\* DI \s* (cls+) \s* close, matched at position p; end is the position after it
MarkerAt(s, p, cls, close) ==
    LET a == SkipWhile(s, p + 1, WS)
        b == SkipWhile(s, a, cls)
        c == SkipWhile(s, b, WS)
    IN IF s[p] = DI /\ b > a /\ c <= Len(s) /\ s[c] = close
       THEN [start |-> p, end |-> c + 1, g |-> SubSeq(s, a, b - 1)]
       ELSE NoMatch

\* pattern.search(s): the leftmost match
MarkerSearch(s, cls, close) ==
    LET P == {p \in 1..Len(s) : MarkerAt(s, p, cls, close).start # 0}
    IN IF P = {} THEN NoMatch
       ELSE MarkerAt(s, CHOOSE p \in P : \A q \in P : p <= q, cls, close)

week_pattern(s) == MarkerSearch(s, Digit, ZHOU)
day_pattern(s) == MarkerSearch(s, Digit \cup {DUN}, RI)

\* lines[k] for a 0-based k in range
LineAt(ls, k) == ls[k + 1]

\* title text after a week marker with one trailing month sign removed
TitleAfterWeek(s, wm) ==
    LET t == Strip(SubSeq(s, wm.end, Len(s)))
    IN IF t # <<>> /\ t[Len(t)] = YUE THEN Strip(SubSeq(t, 1, Len(t) - 1)) ELSE t

\* scripture text after a day marker
ScriptureAfterDay(s, dm) ==
    RStripChars(Strip(SubSeq(s, dm.end, Len(s))), {RI, YUE, " "})

\* the variant that tries week-then-day before the same-line layout
DetectNextLineFirst(ls, k) ==
    LET line == Strip(LineAt(ls, k))
        week_match == week_pattern(line)
        day_match == day_pattern(line)
        next_line == Strip(LineAt(ls, k + 1))
        prev_line == Strip(LineAt(ls, k - 1))
    IN IF /\ week_match.start # 0
          /\ k + 1 < Len(ls)
          /\ day_pattern(next_line).start # 0
       THEN <<[week |-> week_match.g,
               day_text |-> Replace(day_pattern(next_line).g, <<DUN>>, <<"-">>),
               consumed |-> 2,
               header_title |-> TitleAfterWeek(line, week_match),
               header_scripture |-> ScriptureAfterDay(next_line, day_pattern(next_line))]>>
       ELSE IF week_match.start # 0 /\ day_match.start # 0
       THEN <<[week |-> week_match.g,
               day_text |-> Replace(day_match.g, <<DUN>>, <<"-">>),
               consumed |-> 1,
               header_title |-> Strip(SubSeq(line, week_match.end, day_match.start - 1)),
               header_scripture |-> ScriptureAfterDay(line, day_match)]>>
       ELSE IF /\ day_match.start # 0
               /\ k - 1 >= 0
               /\ week_pattern(prev_line).start # 0
       THEN <<[week |-> week_pattern(prev_line).g,
               day_text |-> Replace(day_match.g, <<DUN>>, <<"-">>),
               consumed |-> 1,
               header_title |-> TitleAfterWeek(prev_line, week_pattern(prev_line)),
               header_scripture |-> ScriptureAfterDay(line, day_match)]>>
       ELSE <<>>

\* <<>> is None; header_title / header_scripture <<>> is None (both falsy)
_detect_day_from_lines(ls, k) ==
    LET line == Strip(LineAt(ls, k))
        week_match == week_pattern(line)
        day_match == day_pattern(line)
        next_line == Strip(LineAt(ls, k + 1))
        prev_line == Strip(LineAt(ls, k - 1))
    IN IF week_match.start # 0 /\ day_match.start # 0
       THEN <<[week |-> week_match.g,
               day_text |-> Replace(day_match.g, <<DUN>>, <<"-">>),
               consumed |-> 1,
               header_title |-> Strip(SubSeq(line, week_match.end, day_match.start - 1)),
               header_scripture |-> ScriptureAfterDay(line, day_match)]>>
       ELSE IF /\ week_match.start # 0
               /\ k + 1 < Len(ls)
               /\ day_pattern(next_line).start # 0
       THEN <<[week |-> week_match.g,
               day_text |-> Replace(day_pattern(next_line).g, <<DUN>>, <<"-">>),
               consumed |-> 2,
               header_title |-> TitleAfterWeek(line, week_match),
               header_scripture |-> ScriptureAfterDay(next_line, day_pattern(next_line))]>>
       ELSE IF /\ day_match.start # 0
               /\ k - 1 >= 0
               /\ week_pattern(prev_line).start # 0
       THEN <<[week |-> week_pattern(prev_line).g,
               day_text |-> Replace(day_match.g, <<DUN>>, <<"-">>),
               consumed |-> 1,
               header_title |-> TitleAfterWeek(prev_line, week_pattern(prev_line)),
               header_scripture |-> ScriptureAfterDay(line, day_match)]>>
       ELSE <<>>

(***************************************************************************)
(* Record Segmenter: the loop body shared by extract_from_text and         *)
(* extract_devotional_data                                                 *)
(***************************************************************************)
\* the variant that reads the last line when the title index is past the end
HeaderTitleClamped(ls, k, d) ==
    IF d.header_title # <<>> THEN d.header_title
    ELSE IF k + d.consumed < Len(ls) THEN Strip(LineAt(ls, k + d.consumed))
    ELSE Strip(LineAt(ls, Len(ls) - 1))

HeaderTitle(ls, k, d) ==
    IF d.header_title # <<>> THEN d.header_title
    ELSE IF k + d.consumed < Len(ls) THEN Strip(LineAt(ls, k + d.consumed))
    ELSE <<>>

HeaderScripture(ls, k, d) ==
    IF d.header_scripture # <<>> THEN d.header_scripture
    ELSE IF k + d.consumed + 1 < Len(ls) THEN Strip(LineAt(ls, k + d.consumed + 1))
    ELSE <<>>

\* the variant that leaves the cursor on the header
HeaderSkipNone(d) == 0

HeaderSkip(d) ==
    d.consumed + (IF d.header_title = <<>> THEN 1 ELSE 0)
               + (IF d.header_scripture = <<>> THEN 1 ELSE 0)

NewDay(ls, k, d) ==
    [day_label |-> <<DI>> \o d.week \o <<ZHOU, " ", DI>> \o d.day_text \o <<RI>>,
     title |-> HeaderTitle(ls, k, d),
     scripture |-> HeaderScripture(ls, k, d),
     content |-> <<>>,
     reflection |-> <<>>,
     verse |-> <<>>]

\* the variant that writes the closing record over the last closed one
CloseDayOverLast(cd, out) ==
    IF cd = <<>> THEN out
    ELSE IF out = <<>> THEN <<cd[1]>>
    ELSE [out EXCEPT ![Len(out)] = cd[1]]

\* the record is normalized and appended to the output list
CloseDay(cd, out) ==
    IF cd = <<>> THEN out
    ELSE Append(out, [cd[1] EXCEPT !.content = _normalize_text(@),
                                   !.reflection = _normalize_text(@)])

VerseMarker == <<JIN, JU, FCOLON>>

\* the variant that knows the prefix prompt only
IsPromptPrefixOnly(nl) == IsPrefixAt(nl, <<QING, YONG>>, 1)

verse_pattern(line) ==
    LET p == Find(line, VerseMarker, 1)
    IN IF p = 0 THEN NoMatch
       ELSE [start |-> p, end |-> Len(line) + 1,
             g |-> SubSeq(line, p + Len(VerseMarker), Len(line))]

IsPrompt(nl) ==
    \/ IsPrefixAt(nl, <<QING, YONG>>, 1)
    \/ Contains(nl, <<SI1, KAO>>)
    \/ Contains(nl, <<TI, XING>>)
    \/ Contains(nl, <<YI4, YI4B>>)

\* the variant in which a blank line ends the reflection scan as well
ScanStopsAtBlank(ls, k) ==
    IF k >= Len(ls) THEN TRUE
    ELSE _detect_day_from_lines(ls, k) # <<>> \/ Strip(LineAt(ls, k)) = <<>>

\* the reflection scan stops at the end of the lines or at a header
ScanStops(ls, k) == IF k >= Len(ls) THEN TRUE ELSE _detect_day_from_lines(ls, k) # <<>>

\* one iteration of the reflection scan on line k
ScanLine(ls, k, reflection) ==
    LET nl == Strip(LineAt(ls, k))
    IN IF nl = <<>> \/ IsPrompt(nl) THEN reflection
       ELSE reflection \o nl \o <<NL>>

\* the variant of the filter that does not compare the line with the title
\* and the scripture
KeepContentAny(line, cd) ==
    /\ line # <<>>
    /\ ~Contains(line, <<"P", "A", "G", "E">>)

\* the filter of an ordinary content line
KeepContent(line, cd) ==
    /\ line # <<>>
    /\ ~Contains(line, <<"P", "A", "G", "E">>)
    /\ line # cd.title
    /\ line # cd.scripture

ContentLine(line, cd) ==
    IF KeepContent(line, cd) THEN [cd EXCEPT !.content = @ \o line \o <<NL>>] ELSE cd

(***************************************************************************)
(* The loop body as actions.  lp is the position of the outer loop and sc  *)
(* the position of the reflection scan of the function that is running.    *)
(***************************************************************************)
binder_vars == <<page_to_day_idx, day_idx, page_tables, use_html, tno, data, data0>>
repair_vars == <<pass, failed>>

\* a header is detected at the cursor: close the open record, open a new one
SegHeader(lp) ==
    /\ pc = lp
    /\ i < Len(lines)
    /\ _detect_day_from_lines(lines, i) # <<>>
    /\ LET det == _detect_day_from_lines(lines, i)[1]
       IN /\ all_days' = CloseDay(current_day, all_days)
          /\ current_day' = <<NewDay(lines, i, det)>>
          /\ i' = i + HeaderSkip(det)
    /\ opened' = Append(opened, [page |-> pno, at |-> i])
    /\ detected' = _detect_day_from_lines(lines, i)
    /\ UNCHANGED <<pc, pages, lines, pno, j, binder_vars, repair_vars,
                   pdf_handle>>

\* no record is open: the line is discarded
SegSkip(lp) ==
    /\ pc = lp
    /\ i < Len(lines)
    /\ _detect_day_from_lines(lines, i) = <<>>
    /\ current_day = <<>>
    /\ i' = i + 1
    /\ detected' = <<>>
    /\ UNCHANGED <<pc, pages, lines, pno, j, opened, current_day, all_days,
                   binder_vars, repair_vars,
                   pdf_handle>>

\* a verse line: set the verse and start the reflection scan at the next line
SegVerse(lp, sc) ==
    /\ pc = lp
    /\ i < Len(lines)
    /\ _detect_day_from_lines(lines, i) = <<>>
    /\ current_day # <<>>
    /\ verse_pattern(Strip(LineAt(lines, i))).start # 0
    /\ current_day' = <<[current_day[1] EXCEPT
                           !.verse = verse_pattern(Strip(LineAt(lines, i))).g]>>
    /\ j' = i + 1
    /\ pc' = sc
    /\ detected' = <<>>
    /\ UNCHANGED <<pages, lines, pno, i, opened, all_days, binder_vars, repair_vars,
                   pdf_handle>>

\* one iteration of the reflection scan
SegScan(sc) ==
    /\ pc = sc
    /\ ~ScanStops(lines, j)
    /\ current_day' = <<[current_day[1] EXCEPT
                           !.reflection = ScanLine(lines, j, @)]>>
    /\ j' = j + 1
    /\ UNCHANGED <<pdf_handle, detected, pc, pages, lines, pno, i, opened, all_days, binder_vars,
                   repair_vars>>

\* the reflection scan stops: the cursor resumes where it stopped
SegScanEnd(sc, lp) ==
    /\ pc = sc
    /\ ScanStops(lines, j)
    /\ i' = j
    /\ pc' = lp
    /\ UNCHANGED <<pdf_handle, detected, pages, lines, pno, j, opened, current_day, all_days,
                   binder_vars, repair_vars>>

\* an ordinary line of the open record
SegContent(lp) ==
    /\ pc = lp
    /\ i < Len(lines)
    /\ _detect_day_from_lines(lines, i) = <<>>
    /\ current_day # <<>>
    /\ verse_pattern(Strip(LineAt(lines, i))).start = 0
    /\ current_day' = <<ContentLine(Strip(LineAt(lines, i)), current_day[1])>>
    /\ i' = i + 1
    /\ detected' = <<>>
    /\ UNCHANGED <<pc, pages, lines, pno, j, opened, all_days, binder_vars, repair_vars,
                   pdf_handle>>

(***************************************************************************)
(* extract_from_text                                                       *)
(***************************************************************************)
TextHeader == SegHeader("text")
TextSkip == SegSkip("text")
TextVerse == SegVerse("text", "text_scan")
TextScan == SegScan("text_scan")
TextScanEnd == SegScanEnd("text_scan", "text")
TextContent == SegContent("text")

\* end of input: the open record is appended
TextFinish ==
    /\ pc = "text"
    /\ i >= Len(lines)
    /\ all_days' = CloseDay(current_day, all_days)
    /\ pc' = "text_done"
    /\ UNCHANGED <<pdf_handle, detected, pages, lines, pno, i, j, opened, current_day,
                   binder_vars, repair_vars>>

\* the function as a whole, on a line list
SegStep(ls, st) ==
    LET det == _detect_day_from_lines(ls, st.i)
        line == Strip(LineAt(ls, st.i))
    IN IF st.scan
       THEN IF ScanStops(ls, st.j)
            THEN [st EXCEPT !.scan = FALSE, !.i = st.j]
            ELSE [st EXCEPT !.j = @ + 1,
                            !.cd = <<[st.cd[1] EXCEPT
                                        !.reflection = ScanLine(ls, st.j, @)]>>]
       ELSE IF det # <<>>
       THEN [st EXCEPT !.out = CloseDay(st.cd, st.out),
                       !.cd = <<NewDay(ls, st.i, det[1])>>,
                       !.i = @ + HeaderSkip(det[1])]
       ELSE IF st.cd = <<>>
       THEN [st EXCEPT !.i = @ + 1]
       ELSE IF verse_pattern(line).start # 0
       THEN [st EXCEPT !.cd = <<[st.cd[1] EXCEPT !.verse = verse_pattern(line).g]>>,
                       !.j = st.i + 1,
                       !.scan = TRUE]
       ELSE [st EXCEPT !.cd = <<ContentLine(line, st.cd[1])>>, !.i = @ + 1]

RECURSIVE SegRun(_, _)
SegRun(ls, st) ==
    IF ~st.scan /\ st.i >= Len(ls) THEN st ELSE SegRun(ls, SegStep(ls, st))

extract_from_text(ls) ==
    LET st == SegRun(ls, [i |-> 0, j |-> 0, scan |-> FALSE, cd |-> <<>>, out |-> <<>>])
    IN CloseDay(st.cd, st.out)

(***************************************************************************)
(* extract_devotional_data: the same loop body, restarted on every page    *)
(***************************************************************************)
\* page.extract_text() raises on a page the backend cannot read
Unreadable == << <<"UNREADABLE">> >>
PageRaises(page) == page.lines = Unreadable

\* page.extract_text() is None or "" when the page has no lines
TextEmpty(page) == page.lines = <<>> \/ page.lines = << <<>> >>

\* (page.extract_text() or "").split("\n")
PageLines(page) == IF page.lines = <<>> THEN << <<>> >> ELSE page.lines

\* the next page: skipped when it has no text, else its lines are scanned from 0
PdfPage ==
    /\ pc = "pdf_pages"
    /\ pno < Len(pages)
    /\ ~PageRaises(pages[pno + 1])
    /\ IF TextEmpty(pages[pno + 1])
       THEN /\ pno' = pno + 1
            /\ UNCHANGED <<pc, lines, i>>
       ELSE /\ lines' = PageLines(pages[pno + 1])
            /\ i' = 0
            /\ pc' = "pdf"
            /\ UNCHANGED pno
    /\ UNCHANGED <<pdf_handle, detected, pages, j, opened, current_day, all_days, binder_vars,
                   repair_vars>>

PdfHeader == SegHeader("pdf")
PdfSkip == SegSkip("pdf")
PdfVerse == SegVerse("pdf", "pdf_scan")
PdfScan == SegScan("pdf_scan")
PdfScanEnd == SegScanEnd("pdf_scan", "pdf")
PdfContent == SegContent("pdf")

\* the cursor has passed the last line of the page
PdfPageEnd ==
    /\ pc = "pdf"
    /\ i >= Len(lines)
    /\ pno' = pno + 1
    /\ pc' = "pdf_pages"
    /\ UNCHANGED <<pdf_handle, detected, pages, lines, i, j, opened, current_day, all_days,
                   binder_vars, repair_vars>>

\* pdfplumber.open(pdf_path) returns the handle the with statement holds
PdfOpen ==
    /\ pc = "pdf_open"
    /\ pdf_handle' = Append(pdf_handle, "open")
    /\ pc' = "pdf_pages"
    /\ UNCHANGED <<detected, pages, lines, pno, i, j, opened, current_day, all_days,
                   binder_vars, repair_vars>>

\* pdfplumber.open(pdf_path) raises: no handle was acquired
PdfOpenRaise ==
    /\ pc = "pdf_open"
    /\ pc' = "pdf_raised"
    /\ UNCHANGED <<pdf_handle, detected, pages, lines, pno, i, j, opened, current_day,
                   all_days, binder_vars, repair_vars>>

\* the variant in which a raise leaves the with statement without closing
PdfRaiseLeak ==
    /\ pc = "pdf_pages"
    /\ pno < Len(pages)
    /\ PageRaises(pages[pno + 1])
    /\ pc' = "pdf_raised"
    /\ UNCHANGED <<pdf_handle, detected, pages, lines, pno, i, j, opened, current_day,
                   all_days, binder_vars, repair_vars>>

\* page.extract_text() raises: the with statement closes the handle and the
\* exception leaves the function
PdfRaise ==
    /\ pc = "pdf_pages"
    /\ pno < Len(pages)
    /\ PageRaises(pages[pno + 1])
    /\ pdf_handle' = Append(pdf_handle, "close")
    /\ pc' = "pdf_raised"
    /\ UNCHANGED <<detected, pages, lines, pno, i, j, opened, current_day, all_days,
                   binder_vars, repair_vars>>

\* after the last page: the open record is appended
PdfFinish ==
    /\ pc = "pdf_pages"
    /\ pno >= Len(pages)
    /\ all_days' = CloseDay(current_day, all_days)
    /\ pc' = "pdf_done"
    /\ pdf_handle' = Append(pdf_handle, "close")
    /\ UNCHANGED <<detected, pages, lines, pno, i, j, opened, current_day,
                   binder_vars, repair_vars>>

(***************************************************************************)
(* Tables: find_tables_in_pdf, table_to_html, table_to_markdown            *)
(***************************************************************************)
\* a cell the backend reports as absent (None)
NoneCell == <<"NONE">>

\* [[(cell or "").strip() for cell in row] for row in rows]
NormRows(rows) ==
    [r \in 1..Len(rows) |->
        [c \in 1..Len(rows[r]) |->
            IF rows[r][c] = NoneCell THEN <<>> ELSE Strip(rows[r][c])]]

\* the variant that drops a table whose extraction raises
TableRowsNoFallback(page, t) == IF t.raises THEN <<>> ELSE t.rows

\* table.extract(), or page.extract_table() when it raises
TableRows(page, t) == IF t.raises THEN page.page_table ELSE t.rows

RECURSIVE KeptTables(_, _)
KeptTables(page, k) ==
    IF k > Len(page.found) THEN <<>>
    ELSE LET rows == TableRows(page, page.found[k])
         IN (IF rows # <<>> THEN <<NormRows(rows)>> ELSE <<>>)
            \o KeptTables(page, k + 1)

\* page number (0-based) -> tables, for the pages that keep a table
find_tables_in_pdf(pdf) ==
    [p \in {q \in 0..(Len(pdf) - 1) : KeptTables(pdf[q + 1], 1) # <<>>} |->
        KeptTables(pdf[p + 1], 1)]

\* html.escape(c)
EscapeChar(c) ==
    CASE c = "&" -> <<"&", "a", "m", "p", ";">>
      [] c = "<" -> <<"&", "l", "t", ";">>
      [] c = ">" -> <<"&", "g", "t", ";">>
      [] c = "\"" -> <<"&", "q", "u", "o", "t", ";">>
      [] c = "'" -> <<"&", "#", "x", "2", "7", ";">>
      [] OTHER -> <<c>>

RECURSIVE Flatten(_)
Flatten(ss) == IF ss = <<>> THEN <<>> ELSE Head(ss) \o Flatten(Tail(ss))

html_escape(s) == Flatten([k \in 1..Len(s) |-> EscapeChar(s[k])])

\* "".join(open + html.escape(c) + close for c in row)
HtmlCells(row, open, close) ==
    Flatten([k \in 1..Len(row) |-> open \o html_escape(row[k]) \o close])

\* sep.join(parts)
RECURSIVE Join(_, _)
Join(sep, parts) ==
    IF parts = <<>> THEN <<>>
    ELSE IF Len(parts) = 1 THEN parts[1]
    ELSE parts[1] \o sep \o Join(sep, Tail(parts))

table_to_html(table) ==
    IF table = <<>> THEN <<>>
    ELSE Join(<<NL>>,
           <<<<"<", "t", "a", "b", "l", "e", ">">>,
             <<" ", " ", "<", "t", "h", "e", "a", "d", ">", NL, " ", " ", " ", " ", "<", "t", "r", ">">> \o HtmlCells(table[1], <<"<", "t", "h", ">">>, <<"<", "/", "t", "h", ">">>) \o <<"<", "/", "t", "r", ">", NL, " ", " ", "<", "/", "t", "h", "e", "a", "d", ">">>,
             <<" ", " ", "<", "t", "b", "o", "d", "y", ">">>>>
           \o [r \in 1..(Len(table) - 1) |->
                 <<" ", " ", " ", " ", "<", "t", "r", ">">> \o HtmlCells(table[r + 1], <<"<", "t", "d", ">">>, <<"<", "/", "t", "d", ">">>) \o <<"<", "/", "t", "r", ">">>]
           \o <<<<" ", " ", "<", "/", "t", "b", "o", "d", "y", ">">>, <<"<", "/", "t", "a", "b", "l", "e", ">">>>>)

\* esc: s.replace("|", "\\|")
MdEsc(s) == Replace(s, <<"|">>, <<"\\", "|">>)

MdRow(row) ==
    <<"|", " ">> \o Join(<<" ", "|", " ">>, [k \in 1..Len(row) |-> MdEsc(row[k])])
                 \o <<" ", "|", NL>>

table_to_markdown(table) ==
    IF table = <<>> THEN <<>>
    ELSE MdRow(table[1])
         \o <<"|">> \o Flatten([k \in 1..Len(table[1]) |-> <<" ", "-", "-", "-", " ", "|">>]) \o <<NL>>
         \o Flatten([r \in 1..(Len(table) - 1) |-> MdRow(table[r + 1])])

(***************************************************************************)
(* Table-to-Record Binder: append_tables_to_content                        *)
(***************************************************************************)
\* all cells of a table, row by row
TableCells(table) == Flatten(table)

\* for each non-empty cell that occurs in content, replace it by one space
RECURSIVE DedupeCells(_, _, _)
DedupeCells(content, cells, k) ==
    IF k > Len(cells) THEN content
    ELSE LET cell_text == Strip(cells[k])
         IN DedupeCells(IF cell_text # <<>> /\ Contains(content, cell_text)
                        THEN Replace(content, cell_text, <<" ">>)
                        ELSE content,
                        cells, k + 1)

Markup(table, html) == IF html THEN table_to_html(table) ELSE table_to_markdown(table)

\* one table is bound to a record
BindOne(rec, table, html) ==
    [rec EXCEPT
       !.content = _normalize_text(
                      _normalize_text(DedupeCells(rec.content, TableCells(table), 1))
                      \o <<" ", NL, NL, " ">> \o Markup(table, html)),
       !.reflection = _normalize_text(rec.reflection)]

\* a header is detected at some line of the page
HasHeader(ls) == \E k \in 0..(Len(ls) - 1) : _detect_day_from_lines(ls, k) # <<>>

\* the variant that binds the tables of a page without a header to the day of
\* the last page before it that has one (the behaviour of the docstring)
BindTargetPrev(map, p, n) ==
    LET Q == {q \in 0..p : map[q + 1] # -1}
        last == IF Q = {} THEN -1
                ELSE map[(CHOOSE q \in Q : \A r \in Q : r <= q) + 1]
    IN IF last >= n THEN -1 ELSE last

\* the record index the tables of page p go to; -1 when the page is skipped
BindTarget(map, p, n) ==
    IF map[p + 1] = -1 THEN -1
    ELSE IF map[p + 1] >= n THEN -1
    ELSE map[p + 1]

\* the key after p in sorted(page_tables.keys()); Len(pages) after the last
NextKey(p) ==
    LET K == {k \in DOMAIN page_tables : k > p}
    IN IF K = {} THEN Len(pages) ELSE CHOOSE k \in K : \A q \in K : k <= q

\* the call: find the tables; nothing to do when no page has one
BindFind ==
    /\ pc = "pdf_done"
    /\ page_tables' = find_tables_in_pdf(pages)
    /\ data' = all_days
    /\ data0' = all_days
    /\ pc' = IF DOMAIN find_tables_in_pdf(pages) = {} THEN "bind_done" ELSE "map"
    /\ pno' = 0
    /\ day_idx' = 0
    /\ page_to_day_idx' = <<>>
    /\ UNCHANGED <<pdf_handle, detected, pages, lines, i, j, opened, current_day, all_days,
                   use_html, tno, repair_vars>>

\* page -> day index: a page with a header takes the next index
MapHeader ==
    /\ pc = "map"
    /\ pno < Len(pages)
    /\ HasHeader(PageLines(pages[pno + 1]))
    /\ page_to_day_idx' = Append(page_to_day_idx, day_idx)
    /\ day_idx' = day_idx + 1
    /\ pno' = pno + 1
    /\ UNCHANGED <<pdf_handle, detected, pc, pages, lines, i, j, opened, current_day, all_days,
                   page_tables, use_html, tno, data, data0, repair_vars>>

\* page -> None: no header on the page
MapNone ==
    /\ pc = "map"
    /\ pno < Len(pages)
    /\ ~HasHeader(PageLines(pages[pno + 1]))
    /\ page_to_day_idx' = Append(page_to_day_idx, -1)
    /\ pno' = pno + 1
    /\ UNCHANGED <<pdf_handle, detected, pc, pages, lines, i, j, opened, current_day, all_days,
                   day_idx, page_tables, use_html, tno, data, data0, repair_vars>>

\* the mapping is complete: start with the first page that has tables
MapDone ==
    /\ pc = "map"
    /\ pno >= Len(pages)
    /\ pc' = "bind"
    /\ pno' = NextKey(-1)
    /\ tno' = 0
    /\ UNCHANGED <<pdf_handle, detected, pages, lines, i, j, opened, current_day, all_days,
                   page_to_day_idx, day_idx, page_tables, use_html, data, data0,
                   repair_vars>>

\* the page is mapped to None (or out of range): its tables are skipped
BindSkipPage ==
    /\ pc = "bind"
    /\ pno < Len(pages)
    /\ BindTarget(page_to_day_idx, pno, Len(data)) = -1
    /\ pno' = NextKey(pno)
    /\ UNCHANGED <<pdf_handle, detected, pc, pages, lines, i, j, opened, current_day, all_days,
                   page_to_day_idx, day_idx, page_tables, use_html, tno, data, data0,
                   repair_vars>>

\* the next table of the page is bound to the page's record
BindTable ==
    /\ pc = "bind"
    /\ pno < Len(pages)
    /\ BindTarget(page_to_day_idx, pno, Len(data)) # -1
    /\ tno < Len(page_tables[pno])
    /\ LET target_idx == BindTarget(page_to_day_idx, pno, Len(data))
       IN data' = [data EXCEPT ![target_idx + 1] =
                      BindOne(@, page_tables[pno][tno + 1], use_html)]
    /\ tno' = tno + 1
    /\ UNCHANGED <<pdf_handle, detected, pc, pages, lines, pno, i, j, opened, current_day, all_days,
                   page_to_day_idx, day_idx, page_tables, use_html, data0, repair_vars>>

\* all tables of the page are bound
BindPageEnd ==
    /\ pc = "bind"
    /\ pno < Len(pages)
    /\ BindTarget(page_to_day_idx, pno, Len(data)) # -1
    /\ tno >= Len(page_tables[pno])
    /\ pno' = NextKey(pno)
    /\ tno' = 0
    /\ UNCHANGED <<pdf_handle, detected, pc, pages, lines, i, j, opened, current_day, all_days,
                   page_to_day_idx, day_idx, page_tables, use_html, data, data0,
                   repair_vars>>

\* return data
BindReturn ==
    /\ pc = "bind"
    /\ pno >= Len(pages)
    /\ pc' = "bind_done"
    /\ UNCHANGED <<pdf_handle, detected, pages, lines, pno, i, j, opened, current_day, all_days,
                   page_to_day_idx, day_idx, page_tables, use_html, tno, data, data0,
                   repair_vars>>

(***************************************************************************)
(* Cross-Record Table Repair: _merge_split_tables_across_days              *)
(***************************************************************************)
Upper == <<"A", "B", "C", "D", "E", "F", "G", "H", "I", "J", "K", "L", "M",
           "N", "O", "P", "Q", "R", "S", "T", "U", "V", "W", "X", "Y", "Z">>
Lower == <<"a", "b", "c", "d", "e", "f", "g", "h", "i", "j", "k", "l", "m",
           "n", "o", "p", "q", "r", "s", "t", "u", "v", "w", "x", "y", "z">>

\* str.lower()
LowerMap == [c \in {Upper[n] : n \in 1..Len(Upper)} |->
               Lower[CHOOSE n \in 1..Len(Upper) : Upper[n] = c]]

LowerChar(c) == IF c \in DOMAIN LowerMap THEN LowerMap[c] ELSE c

LowerStr(s) == [n \in 1..Len(s) |-> LowerChar(s[n])]

\* a truthy value that is not a str (a number read from JSON)
NonStr == <<"NONSTR">>

\* s[p:].lower() starts with sub
IsPrefixAtCI(s, sub, p) ==
    /\ p >= 1
    /\ p + Len(sub) - 1 <= Len(s)
    /\ LowerStr(SubSeq(s, p, p + Len(sub) - 1)) = sub

\* the least position at or after from where sub occurs, ignoring case
FindCI(s, sub, from) ==
    LET P == {p \in from..Len(s) : IsPrefixAtCI(s, sub, p)}
    IN IF P = {} THEN 0 ELSE CHOOSE p \in P : \A q \in P : p <= q

\* table_re = (?is)(<table.*?>.*?</table>) matched at position a
TableAt(s, a) ==
    IF ~IsPrefixAtCI(s, <<"<", "t", "a", "b", "l", "e">>, a) THEN NoMatch
    ELSE LET b == Find(s, <<">">>, a + 6)
             c == IF b = 0 THEN 0 ELSE FindCI(s, <<"<", "/", "t", "a", "b", "l", "e", ">">>, b + 1)
         IN IF b # 0 /\ c # 0
            THEN [start |-> a, end |-> c + 8, g |-> SubSeq(s, a, c + 7)]
            ELSE NoMatch

\* table_re.search(s) from position from: the leftmost match
table_search(s, from) ==
    LET P == {a \in from..Len(s) : TableAt(s, a).start # 0}
    IN IF P = {} THEN NoMatch
       ELSE TableAt(s, CHOOSE a \in P : \A q \in P : a <= q)

\* list(table_re.finditer(s)): the successive non-overlapping matches
RECURSIVE table_finditer(_, _)
table_finditer(s, from) ==
    LET m == table_search(s, from)
    IN IF m.start = 0 THEN <<>> ELSE <<m>> \o table_finditer(s, m.end)

\* chapter_re matched at position p: DI \s* (digits | numerals) \s* ZHANG
ChapterAt(s, p) ==
    IF MarkerAt(s, p, Digit, ZHANG).start # 0 THEN MarkerAt(s, p, Digit, ZHANG)
    ELSE MarkerAt(s, p, CnNum, ZHANG)

\* chapter_re.findall(s): the matched tokens, left to right
chapter_findall(s) ==
    LET hit == [p \in 1..Len(s) |-> ChapterAt(s, p)]
        IsHit(m) == m.start # 0
        hits == SelectSeq(hit, IsHit)
    IN [n \in 1..Len(hits) |-> SubSeq(s, hits[n].start, hits[n].end - 1)]

\* inner(tok): re.sub(r'[DI ZHANG \s]', '', tok)
NotMarkerChar(c) == c \notin ({DI, ZHANG} \cup WS)
inner(tok) == SelectSeq(tok, NotMarkerChar)

\* the variant that accepts a table with a single chapter token
IsChapterHeaderAny(chs) == ~(Len(chs) < 1)

\* not (len(chs) < 2): the table looks like a chapter header
IsChapterHeader(chs) == ~(Len(chs) < 2)

\* ' '.join([scripture, title, content])
CurMeta(rec) == rec.scripture \o <<" ">> \o rec.title \o <<" ">> \o rec.content

\* any((ch in cur_meta) or (inner(ch) in cur_meta) for ch in chs)
MetaNamesChapter(chs, cur_meta) ==
    \E n \in 1..Len(chs) : Contains(cur_meta, chs[n]) \/ Contains(cur_meta, inner(chs[n]))

\* both contents are truthy (empty contents make the iteration continue)
PairLive(d, k) == d[k].content # <<>> /\ d[k + 1].content # <<>>

\* cur.lstrip().lower().startswith('<table')
StartsWithTable(cur) == IsPrefixAtCI(LStrip(cur), <<"<", "t", "a", "b", "l", "e">>, 1)

\* pass 1 on the pair (d[k], d[k + 1]), k the 1-based position of previous
Pass1(d, k) ==
    LET prev == d[k].content
        cur == d[k + 1].content
        m == table_search(cur, 1)
    IN IF ~PairLive(d, k) THEN d
       ELSE IF ~(StartsWithTable(cur) /\ FindCI(prev, <<"<", "t", "a", "b", "l", "e">>, 1) # 0) THEN d
       ELSE IF m.start = 0 THEN d
       ELSE IF Contains(prev, m.g) THEN d
       ELSE [d EXCEPT
               ![k].content = _normalize_text(RStrip(prev) \o <<NL, NL>> \o m.g),
               ![k + 1].content = _normalize_text(
                   Strip(SubSeq(cur, 1, m.start - 1) \o SubSeq(cur, m.end, Len(cur))))]

\* the last match of table_re in s; start 0 when there is none
LastTable(s) ==
    LET ms == table_finditer(s, 1)
    IN IF ms = <<>> THEN NoMatch ELSE ms[Len(ms)]

\* pass 2 moves the trailing table of previous to the front of current
Pass2Moves(d, k) ==
    LET prev == d[k].content
        cur == d[k + 1].content
        last_m == LastTable(prev)
        chs == chapter_findall(last_m.g)
    IN /\ PairLive(d, k)
       /\ last_m.start # 0
       /\ IsChapterHeader(chs)
       /\ MetaNamesChapter(chs, CurMeta(d[k + 1]))
       /\ ~Contains(cur, last_m.g)

Pass2(d, k) ==
    LET prev == d[k].content
        cur == d[k + 1].content
        last_m == LastTable(prev)
    IN IF ~Pass2Moves(d, k) THEN d
       ELSE [d EXCEPT
               ![k].content = _normalize_text(
                   SubSeq(prev, 1, last_m.start - 1) \o SubSeq(prev, last_m.end, Len(prev))),
               ![k + 1].content = _normalize_text(last_m.g \o <<NL, NL>> \o cur)]

\* for tbl in prev_tbls: if tbl and tbl in cur: cur = cur.replace(tbl, '')
RECURSIVE RemoveTables(_, _, _)
RemoveTables(cur, tbls, n) ==
    IF n > Len(tbls) THEN cur
    ELSE RemoveTables(IF Contains(cur, tbls[n].g)
                      THEN Replace(cur, tbls[n].g, <<>>)
                      ELSE cur,
                      tbls, n + 1)

\* changed: some table of previous occurs in cur as the loop reaches it
RECURSIVE Pass3Changed(_, _, _)
Pass3Changed(cur, tbls, n) ==
    IF n > Len(tbls) THEN FALSE
    ELSE IF Contains(cur, tbls[n].g) THEN TRUE
    ELSE Pass3Changed(cur, tbls, n + 1)

Pass3(d, k) ==
    LET prev == d[k].content
        cur == d[k + 1].content
        prev_tbls == table_finditer(prev, 1)
    IN IF ~PairLive(d, k) THEN d
       ELSE IF ~Pass3Changed(cur, prev_tbls, 1) THEN d
       ELSE [d EXCEPT ![k + 1].content = _normalize_text(RemoveTables(cur, prev_tbls, 1))]

\* the iteration of pass ps on the pair at k raises: a str method or a regex
\* is applied to a value that is not a str
StepRaises(d, ps, k) ==
    LET prev == d[k].content
        cur == d[k + 1].content
    IN /\ PairLive(d, k)
       /\ CASE ps = 1 ->
                 IF cur = NonStr THEN TRUE
                 ELSE StartsWithTable(cur) /\ prev = NonStr
            [] ps = 2 ->
                 IF prev = NonStr THEN TRUE
                 ELSE /\ LastTable(prev).start # 0
                      /\ IsChapterHeader(chapter_findall(LastTable(prev).g))
                      /\ NonStr \in {d[k + 1].scripture, d[k + 1].title, cur}
            [] OTHER ->
                 IF prev = NonStr THEN TRUE
                 ELSE table_finditer(prev, 1) # <<>> /\ cur = NonStr

\* the variant in which the raise comes after the assignment to previous
RaisedStepPartial(d, ps, k) == [d EXCEPT ![k].content = <<>>]

\* the records when the iteration raises: the raise comes before the
\* iteration's assignments
RaisedStep(d, ps, k) == d

PassStep(d, ps, k) ==
    CASE ps = 1 -> Pass1(d, k)
      [] ps = 2 -> Pass2(d, k)
      [] OTHER -> Pass3(d, k)

\* the loop of pass ps from the pair at k on; a raising iteration ends the
\* whole run
RECURSIVE RunPass(_, _, _)
RunPass(d, ps, k) ==
    IF k >= Len(d) THEN [data |-> d, failed |-> FALSE]
    ELSE IF StepRaises(d, ps, k) THEN [data |-> RaisedStep(d, ps, k), failed |-> TRUE]
    ELSE RunPass(PassStep(d, ps, k), ps, k + 1)

\* the records as one whole run of the function leaves them
_merge_split_tables_across_days(d) ==
    LET r1 == RunPass(d, 1, 1)
        r2 == RunPass(r1.data, 2, 1)
        r3 == RunPass(r2.data, 3, 1)
    IN IF r1.failed THEN r1.data
       ELSE IF r2.failed THEN r2.data
       ELSE r3.data

\* one iteration of the running pass; i is the index of current
RepairStep ==
    /\ pc = "repair"
    /\ i < Len(data)
    /\ ~StepRaises(data, pass, i)
    /\ data' = PassStep(data, pass, i)
    /\ i' = i + 1
    /\ UNCHANGED <<pdf_handle, detected, pc, pages, lines, pno, j, opened, current_day, all_days,
                   page_to_day_idx, day_idx, page_tables, use_html, tno, data0,
                   pass, failed>>

\* the loop of a pass ends: the next pass starts, or the function returns
RepairNextPass ==
    /\ pc = "repair"
    /\ i >= Len(data)
    /\ IF pass < 3
       THEN pass' = pass + 1 /\ i' = 1 /\ UNCHANGED pc
       ELSE pc' = "repaired" /\ UNCHANGED <<pass, i>>
    /\ UNCHANGED <<pdf_handle, detected, pages, lines, pno, j, opened, current_day, all_days,
                   page_to_day_idx, day_idx, page_tables, use_html, tno, data, data0,
                   failed>>

\* an iteration raises: the except clause logs and the function returns
RepairFail ==
    /\ pc = "repair"
    /\ i < Len(data)
    /\ StepRaises(data, pass, i)
    /\ data' = RaisedStep(data, pass, i)
    /\ failed' = TRUE
    /\ pc' = "repaired"
    /\ UNCHANGED <<pdf_handle, detected, pages, lines, pno, i, j, opened, current_day, all_days,
                   page_to_day_idx, day_idx, page_tables, use_html, tno, data0, pass>>

(***************************************************************************)
(* Inputs                                                                  *)
(***************************************************************************)
MaxLines == 4

\* week and day markers, inline title and scripture on one line
LnBoth == <<DI, "1", ZHOU, " ", "t", " ", DI, "2", RI, " ", "s">>
\* both markers and an inline title, no scripture
LnTitle == <<DI, "1", ZHOU, " ", "t", " ", DI, "2", RI>>
\* both markers, a joined day number, nothing inline
LnBare == <<DI, " ", "1", ZHOU, DI, "2", DUN, "3", " ", RI>>
\* a week marker and a title, closed by the month sign
LnWeek == <<" ", DI, "1", "2", " ", ZHOU, " ", "t", " ", YUE>>
\* a day marker and a scripture, closed by the day sign
LnDay == <<DI, " ", "6", DUN, "7", RI, " ", "s", " ", RI>>
LnPlain == <<"x", " ", " ", "y">>
LnVerse == <<JIN, JU, FCOLON, "v">>
LnVerseHalf == <<JIN, JU, ":", "v">>
LnBlank == <<" ">>

LineSet == {LnBoth, LnTitle, LnBare, LnWeek, LnDay, LnPlain, LnVerse, LnVerseHalf, LnBlank}

\* all line lists of 1 to n lines (str.split never returns an empty list)
LineLists(n) == UNION {[1..m -> LineSet] : m \in 1..n}

NoTables == [k \in {} |-> <<>>]

InitText ==
    /\ pc = "text"
    /\ lines \in LineLists(MaxLines)
    /\ pages = <<>>
    /\ pno = 0
    /\ i = 0
    /\ j = 0
    /\ opened = <<>>
    /\ current_day = <<>>
    /\ all_days = <<>>
    /\ page_to_day_idx = <<>>
    /\ day_idx = 0
    /\ page_tables = NoTables
    /\ use_html = TRUE
    /\ tno = 0
    /\ data = <<>>
    /\ data0 = <<>>
    /\ pass = 0
    /\ failed = FALSE
    /\ detected = <<>>
    /\ pdf_handle = <<>>

NextText ==
    \/ TextHeader
    \/ TextSkip
    \/ TextVerse
    \/ TextScan
    \/ TextScanEnd
    \/ TextContent
    \/ TextFinish

SpecText == InitText /\ [][NextText]_vars

\* extract_from_text returns what the function computes as a whole
TextAgrees == pc = "text_done" => all_days = extract_from_text(lines)



(***************************************************************************)
(* Inputs of the pipeline of scripts/extract_tables.py:                    *)
(* extract_devotional_data(pdf), then append_tables_to_content(pdf, data)  *)
(***************************************************************************)
MaxPages == 2

TblXK == << <<<<"x">>, <<" ", "k">>>>, <<NoneCell, <<"&">>>> >>
TblK == << <<<<"k">>>> >>

Found(rows) == [raises |-> FALSE, rows |-> rows]
Raising == [raises |-> TRUE, rows |-> <<>>]

\* two headers on one page
PgTwo == [lines |-> <<LnBoth, LnPlain, LnBoth>>, found |-> <<>>, page_table |-> <<>>]
\* a header and two tables
PgHead == [lines |-> <<LnBoth, LnPlain>>, found |-> <<Found(TblXK), Found(TblK)>>,
           page_table |-> <<>>]
\* a header, a verse line, and a week line that ends the page
PgWeek == [lines |-> <<LnBoth, LnVerse, LnWeek>>, found |-> <<>>, page_table |-> <<>>]
\* a day line that starts the page; the table's extraction raises
PgDay == [lines |-> <<LnDay, LnPlain>>, found |-> <<Raising>>, page_table |-> TblK]
\* no header, one table
PgBody == [lines |-> <<LnPlain>>, found |-> <<Found(TblXK)>>, page_table |-> <<>>]
\* no text; a table region that yields no rows
PgEmpty == [lines |-> <<>>, found |-> <<Found(<<>>)>>, page_table |-> <<>>]
\* a header whose title and scripture are on the following lines
PgBare == [lines |-> <<LnPlain, LnBare>>, found |-> <<Found(TblK)>>, page_table |-> <<>>]

PageSet == {PgTwo, PgHead, PgWeek, PgDay, PgBody, PgEmpty, PgBare}

Pdfs(n) == UNION {[1..m -> PageSet] : m \in 1..n}

\* the lines of all pages, in order
AllLines(pdf) == Flatten([k \in 1..Len(pdf) |-> pdf[k].lines])

Init ==
    /\ pc = "pdf_pages"
    /\ pages \in Pdfs(MaxPages)
    /\ use_html \in BOOLEAN
    /\ lines = <<>>
    /\ pno = 0
    /\ i = 0
    /\ j = 0
    /\ opened = <<>>
    /\ current_day = <<>>
    /\ all_days = <<>>
    /\ page_to_day_idx = <<>>
    /\ day_idx = 0
    /\ page_tables = NoTables
    /\ tno = 0
    /\ data = <<>>
    /\ data0 = <<>>
    /\ pass = 0
    /\ failed = FALSE
    /\ detected = <<>>
    /\ pdf_handle = <<"open">>

Next ==
    \/ PdfPage
    \/ PdfHeader
    \/ PdfSkip
    \/ PdfVerse
    \/ PdfScan
    \/ PdfScanEnd
    \/ PdfContent
    \/ PdfPageEnd
    \/ PdfFinish
    \/ BindFind
    \/ MapHeader
    \/ MapNone
    \/ MapDone
    \/ BindSkipPage
    \/ BindTable
    \/ BindPageEnd
    \/ BindReturn

Spec == Init /\ [][Next]_vars

(***************************************************************************)
(* Inputs of _merge_split_tables_across_days                               *)
(***************************************************************************)
MaxRecords == 3

\* a table with one chapter token
TabOne == <<"<", "t", "a", "b", "l", "e", ">", DI, "1", ZHANG, " ", "b", "<", "/", "t", "a", "b", "l", "e", ">">>
\* the same table with a whitespace run inside its cell
TabOneWide == <<"<", "t", "a", "b", "l", "e", ">", DI, "1", ZHANG, " ", " ", "b", "<", "/", "t", "a", "b", "l", "e", ">">>
\* a table naming two chapters
TabTwo == <<"<", "t", "a", "b", "l", "e", ">", DI, "1", ZHANG, " ", DI, "2", ZHANG, "<", "/", "t", "a", "b", "l", "e", ">">>
\* a table naming one chapter twice
TabSame == <<"<", "t", "a", "b", "l", "e", ">", DI, "1", ZHANG, " ", DI, "1", ZHANG, "<", "/", "t", "a", "b", "l", "e", ">">>
\* a table in capitals, no chapter token
TabCaps == <<"<", "T", "A", "B", "L", "E", ">", "c", "<", "/", "T", "A", "B", "L", "E", ">">>

Rec(content, scripture) ==
    [day_label |-> <<DI, "1", ZHOU, " ", DI, "2", RI>>,
     title |-> <<"t">>,
     scripture |-> scripture,
     content |-> content,
     reflection |-> <<>>,
     verse |-> <<>>]

RecordSet ==
    {Rec(<<>>, <<"s">>),
     Rec(TabOne, <<"s">>),
     Rec(TabOne \o <<" ">> \o TabOneWide, <<"s">>),
     Rec(TabCaps \o <<" ">> \o TabTwo, <<"s">>),
     Rec(<<"y", " ">> \o TabSame, <<"s">>),
     Rec(TabTwo \o <<" ", "z">>, <<"1">>),
     Rec(<<"z">>, <<"1">>),
     Rec(<<"z">>, NonStr),
     Rec(NonStr, <<"s">>)}

RecordLists(n) == UNION {[1..m -> RecordSet] : m \in 1..n}

InitRepair ==
    /\ pc = "repair"
    /\ data \in RecordLists(MaxRecords)
    /\ data0 = data
    /\ pass = 1
    /\ i = 1
    /\ failed = FALSE
    /\ pages = <<>>
    /\ lines = <<>>
    /\ pno = 0
    /\ j = 0
    /\ opened = <<>>
    /\ current_day = <<>>
    /\ all_days = <<>>
    /\ page_to_day_idx = <<>>
    /\ day_idx = 0
    /\ page_tables = NoTables
    /\ use_html = TRUE
    /\ tno = 0
    /\ detected = <<>>
    /\ pdf_handle = <<>>

NextRepair ==
    \/ RepairStep
    \/ RepairNextPass
    \/ RepairFail

SpecRepair == InitRepair /\ [][NextRepair]_vars

(***************************************************************************)
(* Claims about the Record Segmenter                                       *)
(***************************************************************************)
\* C1: for any split of a line sequence into pages, extract_devotional_data
\* returns the same record list as extract_from_text on the pages' lines
\* concatenated in order.
C1_PdfEqualsText ==
    pc = "pdf_done" => all_days = extract_from_text(AllLines(pages))

\* the detector's match for the header of the open record
OpenHeader == _detect_day_from_lines(lines, opened[Len(opened)].at)[1]

\* the trimmed line at index k, empty when k is out of range
TrimmedLine(ls, k) == IF k < Len(ls) THEN Strip(LineAt(ls, k)) ELSE <<>>

\* C2: when the header of the open record has no inline scripture, the
\* record's scripture is the trimmed line at i + consumed + (1 if the title
\* was taken from a fallback line, else 0), i being the cursor of the match.
C2_ScriptureLine ==
    (pc \in {"text", "text_scan"} /\ current_day # <<>>
        /\ OpenHeader.header_scripture = <<>>)
    => current_day[1].scripture =
         TrimmedLine(lines, opened[Len(opened)].at + OpenHeader.consumed
                            + (IF OpenHeader.header_title = <<>> THEN 1 ELSE 0))

\* the verse marker followed by a full-width or a half-width colon
AnyColonMarker(line) ==
    LET P == {q \in 1..Len(line) :
                \/ IsPrefixAt(line, <<JIN, JU, FCOLON>>, q)
                \/ IsPrefixAt(line, <<JIN, JU, ":">>, q)}
    IN IF P = {} THEN NoMatch
       ELSE LET q == CHOOSE q \in P : \A r \in P : q <= r
            IN [start |-> q, end |-> Len(line) + 1, g |-> SubSeq(line, q + 3, Len(line))]

\* the cursor is on a non-header line while a record is open
OnBodyLine ==
    /\ pc = "text"
    /\ i < Len(lines)
    /\ current_day # <<>>
    /\ _detect_day_from_lines(lines, i) = <<>>

\* C3: with a record open, a non-header line holding the verse marker followed
\* by a full-width or a half-width colon sets verse to the text after the
\* colon and routes the following lines to reflection.
C3_EitherColonVerse ==
    [][(OnBodyLine /\ AnyColonMarker(Strip(LineAt(lines, i))).start # 0)
        => /\ current_day'[1].verse = AnyColonMarker(Strip(LineAt(lines, i))).g
           /\ pc' = "text_scan"
           /\ j' = i + 1]_vars

(***************************************************************************)
(* Claims about the Table-to-Record Binder                                 *)
(***************************************************************************)
\* the index in the segmenter's output of the first record opened on page p
FirstRecordOfPage(p) ==
    LET K == {k \in 1..Len(opened) : opened[k].page = p}
    IN (CHOOSE k \in K : \A q \in K : k <= q) - 1

Binding == pc \in {"bind", "bind_done"}

\* C4: the record index associated with a page is the index, in the
\* segmenter's output, of the record whose header first appeared on that page.
C4_PageIndexIsRecordIndex ==
    Binding =>
        \A p \in 0..(Len(page_to_day_idx) - 1) :
            page_to_day_idx[p + 1] # -1
                => page_to_day_idx[p + 1] = FirstRecordOfPage(p)

\* page p has tables and no day header is detected on it
TablesNoHeader(p) ==
    /\ p \in DOMAIN page_tables
    /\ ~HasHeader(PageLines(pages[p + 1]))

HeaderPagesBefore(p) ==
    Cardinality({q \in 0..(p - 1) : HasHeader(PageLines(pages[q + 1]))})

\* the page on which the binder found day r (0-based)
PageOfDay(r) ==
    CHOOSE q \in 0..(Len(pages) - 1) :
        HasHeader(PageLines(pages[q + 1])) /\ HeaderPagesBefore(q) = r

\* rec after binding tables[k..] in order
RECURSIVE BindAll(_, _, _, _)
BindAll(rec, tbls, k, html) ==
    IF k > Len(tbls) THEN rec
    ELSE BindAll(BindOne(rec, tbls[k], html), tbls, k + 1, html)

\* day r with exactly the tables of its own page bound to it
OwnTablesOnly(r) ==
    IF PageOfDay(r) \in DOMAIN page_tables
    THEN BindAll(data0[r + 1], page_tables[PageOfDay(r)], 1, use_html)
    ELSE data0[r + 1]

IsBound(p, k) ==
    /\ BindTarget(page_to_day_idx, p, Len(data)) # -1
    /\ p < pno \/ (p = pno /\ k <= tno)

\* C7: every table bound to a record keeps its cell texts: its markup is
\* found in the record's content as it was serialized (whitespace collapsed).
C7_BoundTablesIntact ==
    Binding =>
        \A p \in DOMAIN page_tables :
            \A k \in 1..Len(page_tables[p]) :
                IsBound(p, k) =>
                    Contains(data[BindTarget(page_to_day_idx, p, Len(data)) + 1].content,
                             _normalize_text(Markup(page_tables[p][k], use_html)))

(***************************************************************************)
(* Claims about the Cross-Record Table Repair                              *)
(***************************************************************************)
\* the table block that ends s, trailing whitespace aside; start 0 when none
TableAtEnd(s) ==
    LET m == LastTable(s)
    IN IF m.start # 0 /\ m.end = Len(RStrip(s)) + 1 THEN m ELSE NoMatch

\* the table block that starts s, leading whitespace aside; start 0 when none
TableAtStart(s) ==
    LET m == table_search(LStrip(s), 1)
    IN IF m.start = 1 THEN m ELSE NoMatch

\* the same table block ends previous.content and starts current.content
BoundaryDuplicate(d, k) ==
    /\ TableAtEnd(d[k].content).start # 0
    /\ TableAtStart(d[k + 1].content).start # 0
    /\ TableAtEnd(d[k].content).g = TableAtStart(d[k + 1].content).g

\* C8: after the three passes have run to their end, no adjacent pair has a
\* table block with identical markup both at the end of previous.content and
\* at the start of current.content.
C8_NoBoundaryDuplicate ==
    (pc = "repaired" /\ ~failed) =>
        \A k \in 1..(Len(data) - 1) : ~BoundaryDuplicate(data, k)

\* the chapter tokens of the trailing table of record k
TrailingTokens(d, k) == chapter_findall(LastTable(d[k].content).g)

\* the set of the elements of a sequence
Range(f) == {f[n] : n \in 1..Len(f)}

\* a step of pass 2 changes the records: the trailing table is moved
Pass2MoveStep == pc = "repair" /\ pass = 2 /\ data' # data

\* C9 as stated: pass 2 moves the trailing table of previous.content only if
\* the table holds at least two distinct chapter tokens.
C9_MovesOnlyDistinctTokens ==
    [][Pass2MoveStep => Cardinality(Range(TrailingTokens(data, i))) >= 2]_vars

\* C9 amended: pass 2 moves the trailing table of previous.content only if
\* the table holds at least two chapter tokens, counted with repetition; a
\* table with a single token is never moved.
C9_MovesOnlyTwoTokens ==
    [][Pass2MoveStep => Len(TrailingTokens(data, i)) >= 2]_vars

\* pass 2 has moved the trailing table of the first record, one whose chapter
\* tokens are one token repeated
C9_Witness ==
    /\ pc = "repair"
    /\ pass = 2
    /\ i = 2
    /\ Pass2Moves(data0, 1)
    /\ Cardinality(Range(TrailingTokens(data0, 1))) = 1
    /\ data = Pass2(data0, 1)
    /\ data # data0

\* C10 as stated: when a step of the repair raises, the records are as they
\* were before the repair started.
C10_FailureRestoresRecords ==
    failed => data = data0

\* C10 amended: when a step of the repair raises, the records stay as the
\* steps before it left them: the raising step changes nothing, and nothing
\* is rolled back.
C10_FailureKeepsPartialRepairs ==
    [][failed' => data' = data]_vars

\* a step raised after an earlier step had changed the records
C10_Witness ==
    /\ pc = "repaired"
    /\ failed
    /\ data # data0

\* the running iteration of the repair raises
RaisingStep == pc = "repair" /\ i < Len(data) /\ StepRaises(data, pass, i)

\* C11: the repair never raises to its caller: when the iteration on a pair
\* raises, the function returns at once, the remaining pairs and passes are
\* not run, and the records stay as the earlier iterations left them.
C11_FailureAbandonsAndKeeps ==
    [][/\ pc # "repaired"
       /\ RaisingStep => /\ pc' = "repaired"
                          /\ failed'
                          /\ data' = data
                          /\ pass' = pass
                          /\ i' = i]_vars

\* an iteration raised before the last pass, after an earlier iteration had
\* changed the records
C11_Witness ==
    /\ pc = "repaired"
    /\ failed
    /\ pass < 3
    /\ i < Len(data)
    /\ data # data0

(***************************************************************************)
(* Claims about the routing of lines                                       *)
(***************************************************************************)
\* line k, trimmed, is the title or the scripture of the open record
IsTitleOrScripture(k) ==
    Strip(LineAt(lines, k)) \in {current_day[1].title, current_day[1].scripture}

\* C12: a line that, trimmed, equals the title or the scripture of the open
\* record is never appended to the record's content, whether the cursor or
\* the reflection scan meets it.
C12_TitleScriptureNotInContent ==
    [][(\/ OnBodyLine /\ IsTitleOrScripture(i)
        \/ pc = "text_scan" /\ j < Len(lines) /\ IsTitleOrScripture(j))
       => current_day'[1].content = current_day[1].content]_vars

\* the cursor has passed a body line that repeats the non-empty title of the
\* open record
C12_Witness ==
    /\ pc = "text"
    /\ current_day # <<>>
    /\ i > opened[Len(opened)].at + HeaderSkip(OpenHeader)
    /\ i <= Len(lines)
    /\ _detect_day_from_lines(lines, i - 1) = <<>>
    /\ Strip(LineAt(lines, i - 1)) = current_day[1].title
    /\ current_day[1].title # <<>>

(***************************************************************************)
(* Inputs of the reflection scan: a header line, a verse line, and up to   *)
(* MaxTail lines after it                                                  *)
(***************************************************************************)
MaxTail == 3

\* prompt lines: the prefix prompt and the three keywords
LnAsk == <<QING, YONG, "x">>
LnThink == <<"x", SI1, KAO>>
LnRemind == <<" ", TI, XING>>
LnMean == <<"x", YI4, YI4B, "y">>
\* the prefix prompt's characters, not at the start of the line
LnUse == <<"x", QING, YONG>>

TailSet == {LnAsk, LnThink, LnRemind, LnMean, LnUse, LnPlain, LnBlank, LnBoth}

Tails(n) == UNION {[1..m -> TailSet] : m \in 1..n}

ScanInputs ==
    {pre \o <<LnBoth, LnVerse>> \o t : pre \in {<<>>, <<LnPlain>>}, t \in Tails(MaxTail)}

InitScan ==
    /\ pc = "text"
    /\ lines \in ScanInputs
    /\ pages = <<>>
    /\ pno = 0
    /\ i = 0
    /\ j = 0
    /\ opened = <<>>
    /\ current_day = <<>>
    /\ all_days = <<>>
    /\ page_to_day_idx = <<>>
    /\ day_idx = 0
    /\ page_tables = NoTables
    /\ use_html = TRUE
    /\ tno = 0
    /\ data = <<>>
    /\ data0 = <<>>
    /\ pass = 0
    /\ failed = FALSE
    /\ detected = <<>>
    /\ pdf_handle = <<>>

SpecScan == InitScan /\ [][NextText]_vars

\* the line is blank, begins with the prefix prompt or holds a prompt keyword
SkippedInScan(nl) ==
    \/ nl = <<>>
    \/ (Len(nl) >= 2 /\ SubSeq(nl, 1, 2) = <<QING, YONG>>)
    \/ \E q \in 1..(Len(nl) - 1) :
          SubSeq(nl, q, q + 1) \in {<<SI1, KAO>>, <<TI, XING>>, <<YI4, YI4B>>}

\* the lines a..b-1, trimmed, the skipped ones left out, each followed by a
\* line break, in order
RECURSIVE Collected(_, _, _)
Collected(ls, a, b) ==
    IF a >= b THEN <<>>
    ELSE (IF SkippedInScan(Strip(LineAt(ls, a))) THEN <<>>
          ELSE Strip(LineAt(ls, a)) \o <<NL>>) \o Collected(ls, a + 1, b)

\* C13: during reflection collection the record's reflection is made of the
\* lines scanned so far, in order, without the blank lines and without the
\* lines that begin with the prefix prompt or hold a prompt keyword.
C13_ReflectionSkipsPrompts ==
    pc = "text_scan" => current_day[1].reflection = Collected(lines, i + 1, j)

\* the scan has passed a prompt line, a blank line and a line it appended
C13_Witness ==
    /\ pc = "text_scan"
    /\ current_day[1].reflection # <<>>
    /\ \E k \in (i + 1)..(j - 1) : Strip(LineAt(lines, k)) = <<>>
    /\ \E k \in (i + 1)..(j - 1) :
          Strip(LineAt(lines, k)) # <<>> /\ SkippedInScan(Strip(LineAt(lines, k)))

(***************************************************************************)
(* Inputs of a whole day: a header with its title and scripture, ordinary  *)
(* lines, a verse line, and further lines                                  *)
(***************************************************************************)
MaxBody == 2

\* a title line and a scripture line that follow a bare header
LnT == <<" ", "t">>
LnS == <<"s", " ">>

\* the three places of a header's title and scripture: both inline; both on
\* the lines after a bare header (here after a discarded line); the title
\* inline and the scripture on the next line
DayHeaders ==
    {[lines |-> <<LnBoth>>, title |-> <<"t">>, scripture |-> <<"s">>],
     [lines |-> <<LnPlain, LnBare, LnT, LnS>>, title |-> <<"t">>, scripture |-> <<"s">>],
     [lines |-> <<LnTitle, LnS>>, title |-> <<"t">>, scripture |-> <<"s">>]}

BodySet == {LnPlain, LnThink, LnUse}
AfterSet == {LnPlain, LnAsk, LnBlank, LnUse, LnBoth}

UpTo(S, n) == UNION {[1..m -> S] : m \in 0..n}

DayText(hd, body, after) == hd.lines \o body \o <<LnVerse>> \o after

DayInputs ==
    {DayText(hd, body, after) :
        hd \in DayHeaders, body \in UpTo(BodySet, MaxBody), after \in UpTo(AfterSet, MaxBody)}

InitDay ==
    /\ pc = "text"
    /\ lines \in DayInputs
    /\ pages = <<>>
    /\ pno = 0
    /\ i = 0
    /\ j = 0
    /\ opened = <<>>
    /\ current_day = <<>>
    /\ all_days = <<>>
    /\ page_to_day_idx = <<>>
    /\ day_idx = 0
    /\ page_tables = NoTables
    /\ use_html = TRUE
    /\ tno = 0
    /\ data = <<>>
    /\ data0 = <<>>
    /\ pass = 0
    /\ failed = FALSE
    /\ detected = <<>>
    /\ pdf_handle = <<>>

SpecDay == InitDay /\ [][NextText]_vars

\* the lines of after that come before its first header line
BeforeHeader(after) ==
    LET H == {k \in 1..Len(after) : after[k] = LnBoth}
    IN IF H = {} THEN after
       ELSE SubSeq(after, 1, (CHOOSE k \in H : \A q \in H : k <= q) - 1)

\* rec is the record the claim describes for the input (hd, body, after)
DayRecordOf(rec, hd, body, after) ==
    /\ rec.title = hd.title
    /\ rec.scripture = hd.scripture
    /\ \A k \in 1..Len(body) : Contains(rec.content, _normalize_text(body[k]))
    /\ rec.verse = <<"v">>
    /\ \A k \in 1..Len(BeforeHeader(after)) :
          ~SkippedInScan(Strip(BeforeHeader(after)[k]))
              => Contains(rec.reflection, _normalize_text(BeforeHeader(after)[k]))

\* C14: for a text made of a header with its title and scripture, ordinary
\* lines, a verse line and further lines, the first record returned has the
\* header's title and scripture, a content that contains the ordinary lines,
\* the text after the marker as verse, and a reflection that contains the
\* lines after the verse line that are not prompts, up to the next header.
C14_DayRecord ==
    pc = "text_done" =>
        /\ all_days # <<>>
        /\ \A hd \in DayHeaders, body \in UpTo(BodySet, MaxBody),
              after \in UpTo(AfterSet, MaxBody) :
                lines = DayText(hd, body, after)
                    => DayRecordOf(all_days[1], hd, body, after)

(***************************************************************************)
(* Inputs of the Header Detector: a list of up to MaxAround lines and an   *)
(* index into it                                                           *)
(***************************************************************************)
MaxAround == 3

\* a day marker whose number is a lone separator
LnDots == <<DI, DUN, RI>>

DetectSet == {LnBoth, LnTitle, LnBare, LnWeek, LnDay, LnDots, LnPlain, LnBlank}

DetectLists(n) == UNION {[1..m -> DetectSet] : m \in 1..n}

InitDetect ==
    /\ pc = "detect"
    /\ lines \in DetectLists(MaxAround)
    /\ i \in 0..(MaxAround - 1)
    /\ i < Len(lines)
    /\ detected = <<>>
    /\ pdf_handle = <<>>
    /\ pages = <<>>
    /\ pno = 0
    /\ j = 0
    /\ opened = <<>>
    /\ current_day = <<>>
    /\ all_days = <<>>
    /\ page_to_day_idx = <<>>
    /\ day_idx = 0
    /\ page_tables = NoTables
    /\ use_html = TRUE
    /\ tno = 0
    /\ data = <<>>
    /\ data0 = <<>>
    /\ pass = 0
    /\ failed = FALSE

\* detected = _detect_day_from_lines(lines, i)
Detect ==
    /\ pc = "detect"
    /\ detected' = _detect_day_from_lines(lines, i)
    /\ pc' = "detect_done"
    /\ UNCHANGED <<pages, lines, pno, i, j, opened, current_day, all_days,
                   binder_vars, repair_vars,
                   pdf_handle>>

SpecDetect == InitDetect /\ [][Detect]_vars

(***************************************************************************)
(* Claims about the Header Detector                                        *)
(***************************************************************************)
\* line k exists and holds a week marker / a day marker
HasWeek(k) == k >= 0 /\ k < Len(lines) /\ week_pattern(Strip(LineAt(lines, k))).start # 0
HasDay(k) == k >= 0 /\ k < Len(lines) /\ day_pattern(Strip(LineAt(lines, k))).start # 0

\* the week digits and the day numbers of line k
WeekOf(k) == week_pattern(Strip(LineAt(lines, k))).g
DayOf(k) == day_pattern(Strip(LineAt(lines, k))).g

\* g with every separator turned into a hyphen
Hyphenated(g) == [n \in 1..Len(g) |-> IF g[n] = DUN THEN "-" ELSE g[n]]

\* C15: when line i holds a week marker and no day marker and line i+1 holds
\* a day marker, the detector returns the week digits of line i, the day
\* numbers of line i+1 with every separator replaced by a hyphen, and
\* consumed = 2.
C15_WeekThenDay ==
    (pc = "detect_done" /\ HasWeek(i) /\ ~HasDay(i) /\ HasDay(i + 1)) =>
        /\ detected # <<>>
        /\ detected[1].week = WeekOf(i)
        /\ detected[1].day_text = Hyphenated(DayOf(i + 1))
        /\ detected[1].consumed = 2

\* the detector has matched a week of two digits followed by a line with two
\* day numbers
C15_Witness ==
    /\ pc = "detect_done"
    /\ HasWeek(i) /\ ~HasDay(i) /\ HasDay(i + 1)
    /\ detected # <<>>
    /\ detected[1].week = <<"1", "2">>
    /\ detected[1].day_text = <<"6", "-", "7">>

\* C16: whenever line i holds both a week marker and a day marker, the
\* detector returns consumed = 1 and a day_text without any separator
\* character: each one has become a hyphen.
C16_SameLine ==
    (pc = "detect_done" /\ HasWeek(i) /\ HasDay(i)) =>
        /\ detected # <<>>
        /\ detected[1].consumed = 1
        /\ \A n \in 1..Len(detected[1].day_text) : detected[1].day_text[n] # DUN
        /\ Len(detected[1].day_text) = Len(DayOf(i))

\* the detector has matched a line with both markers whose day number held a
\* separator
C16_Witness ==
    /\ pc = "detect_done"
    /\ HasWeek(i) /\ HasDay(i)
    /\ \E n \in 1..Len(DayOf(i)) : DayOf(i)[n] = DUN
    /\ detected # <<>>
    /\ detected[1].day_text = <<"2", "-", "3">>

\* the detector's result has this week, these day numbers and this consumed
Returns(week, day, consumed) ==
    /\ detected # <<>>
    /\ detected[1].week = week
    /\ detected[1].day_text = Hyphenated(day)
    /\ detected[1].consumed = consumed

\* C17: the detector tries its layouts in a fixed order: both markers on
\* line i give the same-line match whatever the lines around hold; else a
\* week marker on line i and a day marker on line i+1 give week-then-day with
\* consumed 2; else a day marker on line i and a week marker on line i-1 give
\* a match with consumed 1 and the week of line i-1; else the result is none.
C17_LayoutPriority ==
    pc = "detect_done" =>
        IF HasWeek(i) /\ HasDay(i) THEN Returns(WeekOf(i), DayOf(i), 1)
        ELSE IF HasWeek(i) /\ HasDay(i + 1) THEN Returns(WeekOf(i), DayOf(i + 1), 2)
        ELSE IF HasDay(i) /\ HasWeek(i - 1) THEN Returns(WeekOf(i - 1), DayOf(i), 1)
        ELSE detected = <<>>

\* line i has both markers, line i-1 a week marker of another week and line
\* i+1 a day marker: the same-line match has won
C17_Witness ==
    /\ pc = "detect_done"
    /\ HasWeek(i) /\ HasDay(i)
    /\ HasWeek(i - 1) /\ WeekOf(i - 1) # WeekOf(i)
    /\ HasDay(i + 1) /\ DayOf(i + 1) # DayOf(i)
    /\ Returns(WeekOf(i), DayOf(i), 1)

\* C18: a record that is in the output list is never changed again: every
\* step of the segmenter leaves each closed record where it is and as it is,
\* and writes to the open record only.
C18_ClosedRecordsFrozen ==
    [][\A n \in 1..Len(all_days) :
          n <= Len(all_days') /\ all_days'[n] = all_days[n]]_vars

\* a record is closed, with content and a verse of its own, and the record
\* opened after it has taken content
C18_Witness ==
    /\ pc = "text"
    /\ Len(all_days) = 1
    /\ current_day # <<>>
    /\ current_day[1].content # <<>>
    /\ all_days[1].content # <<>>
    /\ all_days[1].verse # <<>>
    /\ all_days[1].content # current_day[1].content

\* the header matched when the n-th record was opened
HeaderOf(n) == _detect_day_from_lines(lines, opened[n].at)[1]

\* the label built from the week digits and the day numbers of a header
LabelOf(d) == <<DI>> \o d.week \o <<ZHOU, " ", DI>> \o d.day_text \o <<RI>>

\* the number of records open: one or none
OpenCount == IF current_day = <<>> THEN 0 ELSE 1

\* C19: every record opened is appended exactly once: while the segmenter
\* runs the output holds every record opened but the open one, at the end it
\* holds one record per header matched at the cursor, and the n-th record of
\* the output carries the label of the n-th header matched.
C19_OneRecordPerHeader ==
    pc \in {"text", "text_scan", "text_done"} =>
        /\ Len(all_days) = Len(opened) - (IF pc = "text_done" THEN 0 ELSE OpenCount)
        /\ (pc # "text_done" /\ opened # <<>>) => current_day # <<>>
        /\ \A n \in 1..Len(all_days) : all_days[n].day_label = LabelOf(HeaderOf(n))

\* the input has ended after two headers with different labels
C19_Witness ==
    /\ pc = "text_done"
    /\ Len(opened) = 2
    /\ Len(all_days) = 2
    /\ all_days[1].day_label # all_days[2].day_label

\* ---- texts that end on a header or shortly after one ----

MaxEnd == 2

\* a header with nothing inline, one with an inline title, one with both
\* inline, and a week line followed by a bare day line
EndHeaders == {<<LnBare>>, <<LnTitle>>, <<LnBoth>>, <<LnWeek, LnDots>>}

EndSet == {LnPlain, LnBlank, LnVerse}

EndInputs ==
    {pre \o hd \o tl :
        pre \in {<<>>, <<LnPlain, LnBoth, LnPlain, LnVerse, LnPlain>>},
        hd \in EndHeaders, tl \in UpTo(EndSet, MaxEnd)}

InitEnd ==
    /\ pc = "text"
    /\ lines \in EndInputs
    /\ pages = <<>>
    /\ pno = 0
    /\ i = 0
    /\ j = 0
    /\ opened = <<>>
    /\ current_day = <<>>
    /\ all_days = <<>>
    /\ page_to_day_idx = <<>>
    /\ day_idx = 0
    /\ page_tables = <<>>
    /\ use_html = TRUE
    /\ tno = 0
    /\ data = <<>>
    /\ data0 = <<>>
    /\ pass = 0
    /\ failed = FALSE
    /\ detected = <<>>
    /\ pdf_handle = <<>>

SpecEnd == InitEnd /\ [][NextText]_vars

\* the n-th record opened: in the output once closed, the open record before
RecordNo(n) == IF n <= Len(all_days) THEN all_days[n] ELSE current_day[1]

\* the header of the n-th record has no inline title and the line after the
\* header lines is past the end of the text
TitleLineMissing(n) ==
    /\ HeaderOf(n).header_title = <<>>
    /\ opened[n].at + HeaderOf(n).consumed >= Len(lines)

\* the header of the n-th record has no inline scripture and the line after
\* the header lines and the title line, if one was read, is past the end
ScriptureLineMissing(n) ==
    /\ HeaderOf(n).header_scripture = <<>>
    /\ opened[n].at + HeaderOf(n).consumed
           + (IF HeaderOf(n).header_title = <<>> THEN 1 ELSE 0) >= Len(lines)

\* C20: a header matched so near the end of the text that its title line or
\* its scripture line does not exist still opens a record, the field whose
\* line is missing is the empty string, and the record is in the output when
\* the segmenter has finished.
C20_MissingLineIsEmpty ==
    pc \in {"text", "text_scan", "text_done"} =>
        /\ \A n \in 1..Len(opened) :
              /\ n <= Len(all_days) \/ current_day # <<>>
              /\ TitleLineMissing(n) => RecordNo(n).title = <<>>
              /\ ScriptureLineMissing(n) => RecordNo(n).scripture = <<>>
        /\ pc = "text_done" => Len(all_days) = Len(opened)

\* the segmenter has finished a text whose last line is a header with
\* nothing inline: the record is in the output, title and scripture empty
C20_Witness ==
    /\ pc = "text_done"
    /\ opened # <<>>
    /\ TitleLineMissing(Len(opened))
    /\ ScriptureLineMissing(Len(opened))
    /\ Len(all_days) = Len(opened)
    /\ all_days[Len(all_days)].title = <<>>
    /\ all_days[Len(all_days)].scripture = <<>>
    /\ all_days[Len(all_days)].day_label = LabelOf(HeaderOf(Len(opened)))

\* ---- records around an opening table tag that is never closed ----

MaxPair == 3

\* the text of an opening table tag with no closing tag after it
TabOpen == <<"q", " ", "<", "t", "a", "b", "l", "e">>

PairSet ==
    {Rec(TabOpen, <<"s">>),
     Rec(TabCaps \o <<" ", "z">>, <<"s">>),
     Rec(<<" ">> \o TabOne, <<"s">>),
     Rec(<<"z">>, <<"s">>),
     Rec(NonStr, <<"s">>)}

InitPair ==
    /\ pc = "repair"
    /\ data \in UNION {[1..m -> PairSet] : m \in 1..MaxPair}
    /\ data0 = data
    /\ pass = 1
    /\ i = 1
    /\ failed = FALSE
    /\ pages = <<>>
    /\ lines = <<>>
    /\ pno = 0
    /\ j = 0
    /\ opened = <<>>
    /\ current_day = <<>>
    /\ all_days = <<>>
    /\ page_to_day_idx = <<>>
    /\ day_idx = 0
    /\ page_tables = NoTables
    /\ use_html = TRUE
    /\ tno = 0
    /\ detected = <<>>
    /\ pdf_handle = <<>>

SpecPair == InitPair /\ [][NextRepair]_vars

\* s holds a table block: an opening table tag, closed further on
HasBlock(s) == \E a \in 1..Len(s) : TableAt(s, a).start # 0

\* s, left-trimmed, starts with a table block
StartsWithBlock(s) == TableAt(LStrip(s), 1).start # 0

\* the first table block of s
FirstBlock(s) == TableAt(LStrip(s), 1).g

\* s without its first table block
AfterFirstBlock(s) == SubSeq(LStrip(s), Len(FirstBlock(s)) + 1, Len(LStrip(s)))

\* the three conditions of the leading-table migration on the pair
\* (d[k], d[k + 1])
LeadingTableMoves(d, k) ==
    /\ StartsWithBlock(d[k + 1].content)
    /\ HasBlock(d[k].content)
    /\ ~Contains(d[k].content, FirstBlock(d[k + 1].content))

\* C21: an iteration of pass 1 moves the first table block of current to the
\* end of previous when current, left-trimmed, starts with a table block,
\* previous holds a table block and that block is not in previous; when one
\* of the three conditions fails it changes neither record.
C21_Pass1MovesLeadingTable ==
    [][(pc = "repair" /\ pass = 1 /\ i < Len(data)) =>
         IF LeadingTableMoves(data, i)
         THEN data' = [data EXCEPT
                 ![i].content = _normalize_text(
                     @ \o <<" ">> \o FirstBlock(data[i + 1].content)),
                 ![i + 1].content = _normalize_text(AfterFirstBlock(@))]
         ELSE data' = data]_vars

\* ---- the Line Normalizer applied to a string, then to its own result ----

MaxStr == 5

\* all strings of up to n characters: blank, line break, tab and a letter
Strings(n) == UNION {[1..m -> {" ", NL, TAB, "a"}] : m \in 0..n}

\* lines holds the argument, then each result in turn
InitNorm ==
    /\ pc = "norm"
    /\ lines \in {<<s>> : s \in Strings(MaxStr)}
    /\ pages = <<>>
    /\ pno = 0
    /\ i = 0
    /\ j = 0
    /\ opened = <<>>
    /\ current_day = <<>>
    /\ all_days = <<>>
    /\ page_to_day_idx = <<>>
    /\ day_idx = 0
    /\ page_tables = NoTables
    /\ use_html = TRUE
    /\ tno = 0
    /\ data = <<>>
    /\ data0 = <<>>
    /\ pass = 0
    /\ failed = FALSE
    /\ detected = <<>>
    /\ pdf_handle = <<>>

\* _normalize_text is called on the last value
Normalize ==
    /\ pc = "norm"
    /\ Len(lines) < 3
    /\ lines' = Append(lines, _normalize_text(lines[Len(lines)]))
    /\ UNCHANGED <<pc, pages, pno, i, j, opened, current_day, all_days,
                   binder_vars, repair_vars, detected,
                   pdf_handle>>

SpecNorm == InitNorm /\ [][Normalize]_vars

\* C22: the Line Normalizer is idempotent: normalizing the normalized string
\* gives the string that normalizing once gave.
C22_NormalizeIdempotent ==
    (pc = "norm" /\ Len(lines) = 3) => lines[3] = lines[2]

\* a string with a leading blank and a run of a line break and a tab between
\* two letters has been normalized twice
C22_Witness ==
    /\ pc = "norm"
    /\ Len(lines) = 3
    /\ lines[1] = <<" ", "a", NL, TAB, "a">>
    /\ lines[2] = <<"a", " ", "a">>
    /\ lines[3] = lines[2]

\* ---- extract_devotional_data from the opening of the PDF, with pages the
\* backend cannot read ----

\* a page whose text extraction raises
PgFail == [lines |-> Unreadable, found |-> <<>>, page_table |-> <<>>]

ReadSet == {PgTwo, PgWeek, PgBody, PgEmpty, PgFail}

InitPdf ==
    /\ pc = "pdf_open"
    /\ pages \in UNION {[1..m -> ReadSet] : m \in 0..MaxPages}
    /\ pdf_handle = <<>>
    /\ use_html = TRUE
    /\ lines = <<>>
    /\ pno = 0
    /\ i = 0
    /\ j = 0
    /\ opened = <<>>
    /\ current_day = <<>>
    /\ all_days = <<>>
    /\ page_to_day_idx = <<>>
    /\ day_idx = 0
    /\ page_tables = NoTables
    /\ tno = 0
    /\ data = <<>>
    /\ data0 = <<>>
    /\ pass = 0
    /\ failed = FALSE
    /\ detected = <<>>

NextPdf ==
    \/ PdfOpen
    \/ PdfOpenRaise
    \/ PdfPage
    \/ PdfHeader
    \/ PdfSkip
    \/ PdfVerse
    \/ PdfScan
    \/ PdfScanEnd
    \/ PdfContent
    \/ PdfPageEnd
    \/ PdfRaise
    \/ PdfFinish

SpecPdf == InitPdf /\ [][NextPdf]_vars

\* the number of times the handle was acquired
Acquired == Len(SelectSeq(pdf_handle, LAMBDA e : e = "open"))

\* C23: extract_devotional_data acquires the PDF handle once and closes it on
\* every exit path: when the page loop has finished and when a page raises,
\* the handle that was opened is closed; the function never ends with the
\* handle open, and while pages are processed the handle is open.
C23_HandleClosedOnExit ==
    /\ Acquired <= 1
    /\ pc \in {"pdf_pages", "pdf", "pdf_scan"} => pdf_handle = <<"open">>
    /\ pc = "pdf_done" => pdf_handle = <<"open", "close">>
    /\ pc = "pdf_raised" => pdf_handle \in {<<>>, <<"open", "close">>}

\* the second page raised with a record open: the function has ended and the
\* handle is closed
C23_Witness ==
    /\ pc = "pdf_raised"
    /\ pno = 1
    /\ current_day # <<>>
    /\ pdf_handle = <<"open", "close">>

\* ---- find_tables_in_pdf on pages whose tables raise, are empty or hold
\* absent cells ----

MaxFind == 2

\* page.extract_table() raises as well
FallbackRaises == << << <<"RAISES">> >> >>

\* the first table raises and the page-level extraction yields rows; a second
\* table follows
PgCaught == [lines |-> <<LnPlain>>, found |-> <<Raising, Found(TblXK)>>, page_table |-> TblK]
\* the table raises and the page-level extraction yields nothing
PgLost == [lines |-> <<LnPlain>>, found |-> <<Raising>>, page_table |-> <<>>]
\* the second table raises and so does the page-level extraction
PgAbort == [lines |-> <<LnPlain>>, found |-> <<Found(TblK), Raising>>,
            page_table |-> FallbackRaises]

FindSet == {PgCaught, PgLost, PgAbort, PgHead, PgDay, PgBody, PgEmpty, PgTwo}

\* the fallback of some table of the page raises: nothing catches it
PageAborts(page) ==
    /\ page.page_table = FallbackRaises
    /\ \E k \in 1..Len(page.found) : page.found[k].raises

InitFind ==
    /\ pc = "find"
    /\ pages \in UNION {[1..m -> FindSet] : m \in 0..MaxFind}
    /\ pdf_handle = <<>>
    /\ use_html = TRUE
    /\ lines = <<>>
    /\ pno = 0
    /\ i = 0
    /\ j = 0
    /\ opened = <<>>
    /\ current_day = <<>>
    /\ all_days = <<>>
    /\ page_to_day_idx = <<>>
    /\ day_idx = 0
    /\ page_tables = NoTables
    /\ tno = 0
    /\ data = <<>>
    /\ data0 = <<>>
    /\ pass = 0
    /\ failed = FALSE
    /\ detected = <<>>

\* the call returns the map
FindTables ==
    /\ pc = "find"
    /\ \A q \in 1..Len(pages) : ~PageAborts(pages[q])
    /\ page_tables' = find_tables_in_pdf(pages)
    /\ pc' = "found"
    /\ UNCHANGED <<pdf_handle, detected, pages, lines, pno, i, j, opened, current_day,
                   all_days, page_to_day_idx, day_idx, use_html, tno, data, data0,
                   repair_vars>>

\* page.extract_table() raises inside the except clause: the call raises
FindRaise ==
    /\ pc = "find"
    /\ \E q \in 1..Len(pages) : PageAborts(pages[q])
    /\ pc' = "find_raised"
    /\ UNCHANGED <<pdf_handle, detected, pages, lines, pno, i, j, opened, current_day,
                   all_days, binder_vars, repair_vars>>

NextFind ==
    \/ FindTables
    \/ FindRaise

SpecFind == InitFind /\ [][NextFind]_vars

\* the rows one table of the page yields: its own, or those of the page-level
\* extraction when its own extraction raises
RowsOf(page, t) == IF t.raises THEN page.page_table ELSE t.rows

\* the tables of the page that yield rows, in order
Yielding(page) == SelectSeq(page.found, LAMBDA t : RowsOf(page, t) # <<>>)

\* the cell as the map holds it: absent becomes empty, text is trimmed
CellText(c) == IF c = NoneCell THEN <<>> ELSE Strip(c)

\* table tb of the map holds the rows, cell by cell
HoldsRows(tb, rows) ==
    /\ Len(tb) = Len(rows)
    /\ \A r \in 1..Len(rows) :
          /\ Len(tb[r]) = Len(rows[r])
          /\ \A c \in 1..Len(rows[r]) : tb[r][c] = CellText(rows[r][c])

SkippedAfterHeader ==
    {k \in (opened[Len(opened)].at + detected[1].consumed)..(i - 1) : k < Len(lines)}

\* C25: a line taken as the fallback title or scripture of a record is
\* skipped by the cursor, and every line the cursor skips after a header is
\* one whose text became the title or the scripture of the record, so that
\* no line feeds two fields and no skipped line is lost.
C25_SkippedLinesAreFields ==
    (pc = "text" /\ detected # <<>>) =>
        /\ \A k \in SkippedAfterHeader :
              Strip(LineAt(lines, k)) \in {current_day[1].title, current_day[1].scripture}
        /\ (detected[1].header_title = <<>> /\ current_day[1].title # <<>>) =>
              \E k \in SkippedAfterHeader : Strip(LineAt(lines, k)) = current_day[1].title
        /\ (detected[1].header_scripture = <<>> /\ current_day[1].scripture # <<>>) =>
              \E k \in SkippedAfterHeader :
                  Strip(LineAt(lines, k)) = current_day[1].scripture

\* one step of the loops moves a cursor forward
CursorAdvances ==
    /\ (pc = "text" /\ pc' = "text") =>
          IF _detect_day_from_lines(lines, i) = <<>>
          THEN i' = i + 1
          ELSE i' - (i + _detect_day_from_lines(lines, i)[1].consumed) \in 0..2
    /\ (pc = "text" /\ pc' = "text_scan") => (j' = i + 1 /\ i' = i)
    /\ (pc = "text_scan" /\ pc' = "text_scan") => (j' = j + 1 /\ i' = i)
    /\ (pc = "text_scan" /\ pc' = "text") => (i' = j /\ j > i)
    /\ (pc = "text" /\ pc' = "text") => i' > i
    /\ (pc = "text" /\ pc' = "text_done") => i >= Len(lines)
    /\ i' <= Len(lines) + 2
    /\ j' <= Len(lines)

\* C26: extract_from_text terminates: every iteration of the outer loop moves
\* the cursor i forward (by 1 on a line that is no header, by consumed plus 0
\* to 2 on a header, to the stop position j > i after a reflection scan),
\* every iteration of the scan moves j forward or stops, and neither cursor
\* passes the end of the lines by more than the two lines a header may skip,
\* so that the loops cannot run for ever.
C26_Terminates == [][CursorAdvances]_vars

\* the function has returned after a header, a verse line, a scan that took a
\* line, and a second header
C26_Witness ==
    /\ pc = "text_done"
    /\ i >= Len(lines)
    /\ Len(all_days) = 2
    /\ all_days[1].reflection # <<>>

\* a verse line of the open record has been processed: the scan is running,
\* or the cursor has passed a line of the record that holds the verse marker
VerseSeen ==
    /\ current_day # <<>>
    /\ \/ pc = "text_scan"
       \/ /\ pc = "text"
          /\ \E k \in (opened[Len(opened)].at + HeaderSkip(OpenHeader))..(i - 1) :
                k < Len(lines) /\ Find(Strip(LineAt(lines, k)), VerseMarker, 1) # 0

\* C27: once a verse line has been processed for the open record, no step
\* appends to the record's content or writes its verse again; the scan hands
\* the cursor back at the place it stopped, which is the end of the lines or
\* a place where the Header Detector matches, and the next step there opens a
\* new record.
C27_AfterVerseOnlyReflection ==
    [][VerseSeen =>
         /\ (Len(opened') = Len(opened) /\ current_day' # <<>>) =>
               /\ current_day'[1].content = current_day[1].content
               /\ current_day'[1].verse = current_day[1].verse
         /\ (pc = "text_scan" /\ pc' = "text") => i' = j
         /\ pc = "text" =>
               \/ i >= Len(lines) /\ pc' = "text_done"
               \/ /\ i < Len(lines)
                  /\ _detect_day_from_lines(lines, i) # <<>>
                  /\ opened' = Append(opened, [page |-> pno, at |-> i])
                  /\ current_day'[1].verse = <<>>]_vars

\* the scan of a record has taken a line into the reflection and has handed
\* the cursor back on a header
C27_Witness ==
    /\ pc = "text"
    /\ VerseSeen
    /\ i < Len(lines)
    /\ i = j
    /\ _detect_day_from_lines(lines, i) # <<>>
    /\ current_day[1].reflection # <<>>
    /\ current_day[1].verse # <<>>

\* the table blocks of a content: the text of every match of table_re
Blocks(s) ==
    IF s = NonStr THEN {}
    ELSE {TableAt(s, a).g : a \in {q \in 1..Len(s) : TableAt(s, q).start # 0}}

\* C28: when _merge_split_tables_across_days has returned, every table block
\* that occurred in the content of some record before the run occurs in the
\* content of at least one record.
C28_NoTableLost ==
    pc = "repaired" =>
        \A k \in 1..Len(data0) : \A b \in Blocks(data0[k].content) :
            \E m \in 1..Len(data) :
                data[m].content # NonStr /\ Contains(data[m].content, b)

\* the records whose index is at most one away from k
Near(k) == {m \in 1..Len(data) : m \in (k - 1)..(k + 1)}

\* every table block that record k alone held before the run, and that is
\* still in some record, is in a record at most one index away from k
NearHome ==
    \A k \in 1..Len(data0) : \A b \in Blocks(data0[k].content) :
        /\ \A n \in 1..Len(data0) : b \in Blocks(data0[n].content) => n = k
        /\ \E m \in 1..Len(data) : b \in Blocks(data[m].content)
        => \E m \in Near(k) : b \in Blocks(data[m].content)

\* the iteration of pass 2 at hand moves a table that pass 1 had moved
\* backward into previous: the record held it after pass 1 and not before
MovesBackAgain ==
    /\ pc = "repair" /\ pass = 2 /\ i < Len(data)
    /\ ~StepRaises(data, 2, i)
    /\ Pass2Moves(data, i)
    /\ LastTable(data[i].content).g \notin Blocks(data0[i].content)
    /\ LastTable(data[i].content).g \in Blocks(data0[i + 1].content)

\* C29: in one run of _merge_split_tables_across_days a table block ends up
\* at most one record index away from the record that held it before the
\* run, and no iteration of pass 2 moves a table that pass 1 moved backward.
C29_TableStaysAdjacent ==
    [](pc = "repaired" => NearHome) /\ [][~MovesBackAgain]_vars

\* the records the function returns are those of one whole run on its input
RunAgrees == pc = "repaired" => data = _merge_split_tables_across_days(data0)

\* C30: when _merge_split_tables_across_days has returned, a second run on
\* the records it returned changes the content of no record.
C30_SecondRunChangesNothing ==
    pc = "repaired" =>
        \A k \in 1..Len(data) :
            _merge_split_tables_across_days(data)[k].content = data[k].content

====
